---------------------------- MODULE Spec2Model ----------------------------
(***************************************************************************)
(* The render command of the Remotion CLI (packages/cli/src/render.tsx).   *)
(*                                                                         *)
(* render() is one async function.  The model follows it statement by      *)
(* statement: pc is the line of render.tsx at which the next step of the   *)
(* function starts, and each action is one block of consecutive lines up   *)
(* to the next await, exit or throw.  An awaited collaborator (bundle,     *)
(* getCompositions, renderFrames, stitchFramesToVideo) is two steps, its   *)
(* call and its settlement, so that "has started" and "has completed" are  *)
(* different states.  Values read from the process-wide configuration      *)
(* (Internals.get...) are drawn where the code reads them.                 *)
(***************************************************************************)
EXTENDS Integers, FiniteSets, Sequences, TLC

(***************************************************************************)
(* Bounds of the model.                                                    *)
(***************************************************************************)
\* largest durationInFrames of a composition
MaxFrames == 3
\* largest number of logical processors of the host; also the largest
\* largest concurrency: largest value passed to --concurrency, and half
\* the logical processors of the largest host
MaxCpus == 3
\* how many times the disposal of a run's directories is invoked
MaxDisposals == 2
\* how far below 0 and above 63 the CRF values of SpecCrf go
CrfMargin == 3

(***************************************************************************)
(* Value domains.                                                          *)
(***************************************************************************)
\* an optional value is a set with at most one element: {} is null/undefined
None == {}
Some(v) == {v}
Get(o) == CHOOSE v \in o : TRUE

Codecs == {"h264", "h265", "vp8", "vp9"}
PixelFormats == {"yuv420p", "yuva420p"}
ImageFormats == {"jpeg", "png"}
\* CRF values a user may configure: 3 is below the range of vp8 only, 52 is
\* above the range of h264 and h265 only
CrfInputs == {3, 52}
CompIds == {"a", "b"}
Features == {"enable-libvpx", "enable-gpl", "enable-libx265"}
\* kinds of thing found at a path of the file system
PathKinds == {"absent", "file", "dir"}
Collaborators == {"ffmpegHasFeature", "validateFfmpeg", "bundle",
                  "getCompositions", "renderFrames", "stitchFramesToVideo"}
\* the collaborators that do the work of a stage
StageCollaborators == {"bundle", "getCompositions", "renderFrames",
                       "stitchFramesToVideo"}

VARIABLES
    pc,             \* line of render.tsx where the next step starts
    result,         \* "running" | "done" | "exit" | "threw"
    exitCode,       \* argument of process.exit, None while none was made
    error,          \* what ended the run, "none" otherwise
    outputBefore,   \* what was at absoluteOutputFile when the run started
    outPath,        \* what is at absoluteOutputFile now
    tmpDir,         \* the mkdtemp frame directory: "absent" | "dir" | "removed"
    bundleDir,      \* the directory bundle() returns: "absent" | "dir" | "removed"
    parallelism,    \* Internals.getConcurrency(): None or Some(n)
    shouldOutputImageSequence,
    userCodec,      \* Internals.getOutputCodecOrUndefined(): None or Some(c)
    codec,          \* getFinalOutputCodec(...): None until resolved
    codecUsers,     \* the steps that were handed a codec value
    warnings,       \* features reported missing by the advisory checks
    overwrite,
    crf,            \* None (null) or Some(number)
    crfValidated,   \* validateSelectedCrfAndCodecCombination was called
    pixelFormat,
    imageFormat,
    called,         \* collaborators that were invoked
    completed,      \* collaborators whose call has returned or resolved
    running,        \* the awaited collaborator in progress, "none" otherwise
    compositionId,
    frames,         \* config.durationInFrames, 0 until config is found
    concurrency,    \* workers renderFrames runs, 0 until rendering
    shownConcurrency, \* N of "Rendering frames (Nx concurrency)", 0 until shown
    nextFrame,      \* next frame index renderFrames hands to a worker
    inflight,       \* frame indices being rendered
    rendered,       \* frame indices whose image was written
    renderCount,    \* per frame index, how many times it was rendered
    progress,       \* value last passed to renderProgress.start/update
    stitchEntered,  \* the stitching branch (line 173) was entered
    videoWritten,   \* stitchFramesToVideo wrote the video file
    debug,          \* process.env.DEBUG
    perfLogged,     \* Internals.perf.logPerf() ran
    disposals,      \* how many times the two directories were disposed of
    disposeError    \* a disposal raised an error

cfgVars == <<parallelism, shouldOutputImageSequence, userCodec, codec,
             codecUsers, warnings, overwrite, crf, crfValidated,
             pixelFormat, imageFormat>>
fsVars == <<outputBefore, outPath, tmpDir, bundleDir>>
callVars == <<called, completed, running>>
compVars == <<compositionId, frames>>
renderVars == <<concurrency, shownConcurrency, nextFrame, inflight, rendered, renderCount,
                progress>>
disposeVars == <<disposals, disposeError>>
endVars == <<stitchEntered, videoWritten, debug, perfLogged, disposeVars>>
ctlVars == <<pc, result, exitCode, error>>
vars == <<ctlVars, fsVars, cfgVars, callVars, compVars, renderVars, endVars>>

(***************************************************************************)
(* Pure helpers.                                                           *)
(***************************************************************************)
Max(a, b) == IF a >= b THEN a ELSE b

\* faulty variant of Conflict: the conflict goes unnoticed
ConflictNever(seq, uc) == FALSE
\* render.tsx line 36: the --codec / --sequence conflict
Conflict(seq, uc) == seq /\ uc # None

\* faulty variant of OutputBlocked: an existing output is always replaced
OutputNeverBlocked(kind, ow) == FALSE
\* render.tsx line 82: fs.existsSync(absoluteOutputFile) && !overwrite
OutputBlocked(kind, ow) == kind # "absent" /\ ~ow

\* remotion/dist/config/codec: the user's codec, else the one the output
\* file's extension stands for, else the default codec
DEFAULT_CODEC == "h264"
getFinalOutputCodec(uc, extCodec) ==
    IF uc # None THEN uc
    ELSE IF extCodec # None THEN extCodec
    ELSE Some(DEFAULT_CODEC)

\* the ffmpegHasFeature questions render.tsx lines 51-74 ask for a codec
FeaturesAsked(c) ==
    IF c = Some("vp8") THEN {"enable-libvpx"}
    ELSE IF c = Some("h265") THEN {"enable-gpl", "enable-libx265"}
    ELSE {}

\* documented default of the CRF, by codec
DefaultCrf(c) ==
    CASE c = "h264" -> 18
      [] c = "h265" -> 23
      [] c = "vp8" -> 9
      [] c = "vp9" -> 28
\* faulty variant of CrfRange: the upper edge of h264 and the lower edge
\* of vp8 are off by one
CrfRangeOffByOne(c) ==
    CASE c = "h264" -> 0..52
      [] c = "h265" -> 0..51
      [] c = "vp8" -> 3..63
      [] c = "vp9" -> 0..63

\* documented range of the CRF, by codec
CrfRange(c) ==
    CASE c = "h264" -> 0..51
      [] c = "h265" -> 0..51
      [] c = "vp8" -> 4..63
      [] c = "vp9" -> 0..63

\* Internals.getActualCrf(codec): the configured CRF, else the default
getActualCrf(userCrf, c) ==
    IF userCrf # None THEN userCrf ELSE Some(DefaultCrf(Get(c)))

\* faulty variant of ResolveCrf: a CRF for image sequences too
ResolveCrfAlways(seq, userCrf, c) == getActualCrf(userCrf, c)
\* render.tsx line 91
ResolveCrf(seq, userCrf, c) == IF seq THEN None ELSE getActualCrf(userCrf, c)

\* Internals.validateSelectedCrfAndCodecCombination passes
CrfOk(crfOpt, c) == Get(crfOpt) \in CrfRange(Get(c))

\* faulty variant of CrfRejected: the CRF validator is not called
CrfNotChecked(crfOpt, c) == FALSE
\* render.tsx lines 92-94: whether the CRF validator rejects
CrfRejected(crfOpt, c) == crfOpt # None /\ ~CrfOk(crfOpt, c)

\* getImageFormat(codec): the configured image format, else the default
DEFAULT_IMAGE_FORMAT == "jpeg"
getImageFormat(codecArg, userFmt) ==
    IF userFmt # None THEN Get(userFmt) ELSE DEFAULT_IMAGE_FORMAT

\* Internals.validateSelectedPixelFormatAndCodecCombination passes:
\* yuva420p is for the WebM codecs only
PixelFormatCodecOk(pf, c) == pf = "yuva420p" => Get(c) \in {"vp8", "vp9"}

\* Internals.validateSelectedPixelFormatAndImageFormatCombination passes:
\* a transparent pixel format needs an image format with an alpha channel
PixelFormatImageFormatOk(pf, imf) == pf = "yuva420p" => imf = "png"

\* faulty variant of ImageFormatRejected: the validator is not called
ImageFormatNotChecked(pf, imf) == FALSE
\* render.tsx lines 101-104: whether the pixel-format/image-format
\* validator rejects
ImageFormatRejected(pf, imf) == ~PixelFormatImageFormatOk(pf, imf)

\* getActualConcurrency(parallelism)
getActualConcurrency(par, cpus) ==
    IF par # None THEN Get(par) ELSE Max(1, cpus \div 2)

(***************************************************************************)
(* Initial state: render() is about to run; nothing was read or created.   *)
(* Anything may already be at the output path.                             *)
(***************************************************************************)
Init ==
    /\ pc = 33
    /\ result = "running"
    /\ exitCode = None
    /\ error = "none"
    /\ outputBefore \in PathKinds
    /\ outPath = outputBefore
    /\ tmpDir = "absent"
    /\ bundleDir = "absent"
    /\ parallelism = None
    /\ shouldOutputImageSequence = FALSE
    /\ userCodec = None
    /\ codec = None
    /\ codecUsers = {}
    /\ warnings = {}
    /\ overwrite = FALSE
    /\ crf = None
    /\ crfValidated = FALSE
    /\ pixelFormat = "yuv420p"
    /\ imageFormat = "jpeg"
    /\ called = {}
    /\ completed = {}
    /\ running = "none"
    /\ compositionId = "a"
    /\ frames = 0
    /\ concurrency = 0
    /\ shownConcurrency = 0
    /\ nextFrame = 0
    /\ inflight = {}
    /\ rendered = {}
    /\ renderCount = [f \in 0..MaxFrames |-> 0]
    /\ progress = 0
    /\ stitchEntered = FALSE
    /\ videoWritten = FALSE
    /\ debug = FALSE
    /\ perfLogged = FALSE
    /\ disposals = 0
    /\ disposeError = FALSE

At(line) == result = "running" /\ running = "none" /\ pc = line

\* process.exit(code)
Exit(code, why) ==
    /\ result' = "exit"
    /\ exitCode' = Some(code)
    /\ error' = why

\* an exception leaves render(): its promise rejects
Throw(why) ==
    /\ result' = "threw"
    /\ exitCode' = exitCode
    /\ error' = why

Goto(line) ==
    /\ pc' = line
    /\ UNCHANGED <<result, exitCode, error>>

(***************************************************************************)
(* Lines 33-45: read the flags; reject --codec together with --sequence.   *)
(***************************************************************************)
ReadFlags ==
    /\ At(33)
    /\ \E par \in {None} \cup {Some(n) : n \in 1..MaxCpus},
          seq \in BOOLEAN,
          uc \in {None} \cup {Some(c) : c \in Codecs} :
        /\ parallelism' = par
        /\ shouldOutputImageSequence' = seq
        /\ userCodec' = uc
        /\ IF Conflict(seq, uc)
           THEN /\ Exit(1, "conflict")
                /\ pc' = 44
           ELSE Goto(46)
    /\ UNCHANGED <<codec, codecUsers, warnings, overwrite, crf, crfValidated,
                   pixelFormat, imageFormat>>
    /\ UNCHANGED <<fsVars, callVars, compVars, renderVars, endVars>>

(***************************************************************************)
(* Lines 46-74: resolve the codec, then the advisory feature checks.       *)
(***************************************************************************)
\* the step with codec c resolved and the features in missing reported
\* missing: the three if-bodies of lines 51-74 only log
ResolveCodecAs(c, missing) ==
    LET asked == IF FeaturesAsked(c) # {} THEN {"ffmpegHasFeature"} ELSE {}
    IN  /\ At(46)
        /\ codec' = c
        /\ warnings' = missing
        /\ called' = called \cup asked
        /\ completed' = completed \cup asked
        /\ Goto(76)
        /\ UNCHANGED <<parallelism, shouldOutputImageSequence, userCodec,
                       codecUsers, overwrite, crf, crfValidated, pixelFormat,
                       imageFormat>>
        /\ UNCHANGED <<running, fsVars, compVars, renderVars, endVars>>

\* faulty variant of ResolveCodecWith: a codec whose feature is missing is
\* replaced by the default codec
ResolveCodecFallingBack(extCodec, has) ==
    LET c == getFinalOutputCodec(userCodec, extCodec)
        missing == FeaturesAsked(c) \ has
    IN  ResolveCodecAs(IF missing # {} THEN Some(DEFAULT_CODEC) ELSE c,
                       missing)

\* the step for an output file whose extension stands for extCodec, on a
\* host whose ffmpeg has the features in has
ResolveCodecWith(extCodec, has) ==
    LET c == getFinalOutputCodec(userCodec, extCodec)
    IN  ResolveCodecAs(c, FeaturesAsked(c) \ has)

ResolveCodec ==
    \E extCodec \in {None} \cup {Some(c) : c \in Codecs},
       has \in SUBSET Features :
        ResolveCodecWith(extCodec, has)

(***************************************************************************)
(* Lines 76-87: name the output; refuse to replace an existing one.        *)
(***************************************************************************)
CheckOutput ==
    /\ At(76)
    /\ codecUsers' = codecUsers \cup {"getOutputFilename"}
    /\ \E ow \in BOOLEAN :
        /\ overwrite' = ow
        /\ IF OutputBlocked(outPath, ow)
           THEN /\ Exit(1, "exists")
                /\ pc' = 86
           ELSE Goto(88)
    /\ UNCHANGED <<parallelism, shouldOutputImageSequence, userCodec, codec,
                   warnings, crf, crfValidated, pixelFormat, imageFormat>>
    /\ UNCHANGED <<fsVars, callVars, compVars, renderVars, endVars>>

(***************************************************************************)
(* Lines 88-90: video output needs ffmpeg.                                 *)
(***************************************************************************)
ValidateFfmpeg ==
    /\ At(88)
    /\ IF shouldOutputImageSequence
       THEN /\ Goto(91)
            /\ UNCHANGED <<called, completed>>
       ELSE /\ called' = called \cup {"validateFfmpeg"}
            /\ \/ /\ completed' = completed \cup {"validateFfmpeg"}
                  /\ Goto(91)
               \/ /\ completed' = completed
                  /\ pc' = 89
                  /\ Throw("validateFfmpeg")
    /\ UNCHANGED <<running, cfgVars, fsVars, compVars, renderVars, endVars>>

(***************************************************************************)
(* Lines 91-94: the CRF, for video output only, checked against the codec. *)
(***************************************************************************)
\* the step when the configured CRF is userCrf (None: not configured)
ValidateCrfWith(userCrf) ==
    LET c == ResolveCrf(shouldOutputImageSequence, userCrf, codec)
    IN  /\ At(91)
        /\ crf' = c
        /\ crfValidated' = (c # None)
        /\ codecUsers' = codecUsers \cup
                (IF shouldOutputImageSequence THEN {}
                 ELSE {"getActualCrf"}) \cup
                (IF c # None
                 THEN {"validateSelectedCrfAndCodecCombination"} ELSE {})
        /\ IF CrfRejected(c, codec)
           THEN /\ pc' = 93
                /\ Throw("crf")
           ELSE Goto(95)
        /\ UNCHANGED <<parallelism, shouldOutputImageSequence, userCodec,
                       codec, warnings, overwrite, pixelFormat, imageFormat>>
        /\ UNCHANGED <<fsVars, callVars, compVars, renderVars, endVars>>

ValidateCrf ==
    \E userCrf \in {None} \cup
                    (IF shouldOutputImageSequence THEN {}
                     ELSE {Some(n) : n \in CrfInputs}) :
        ValidateCrfWith(userCrf)

(***************************************************************************)
(* Lines 95-104: pixel format and image format, and their two validators.  *)
(***************************************************************************)
\* faulty variant of ValidateFormats: the output directory of an image
\* sequence is made before the validators of lines 100-104 run
ValidateFormatsAfterMkdir ==
    /\ At(95)
    /\ \E pf \in PixelFormats,
          userFmt \in {None} \cup {Some(f) : f \in ImageFormats} :
        LET codecArg == IF shouldOutputImageSequence THEN None ELSE codec
            imf == getImageFormat(codecArg, userFmt)
        IN  /\ pixelFormat' = pf
            /\ imageFormat' = imf
            /\ codecUsers' = codecUsers \cup
                    (IF codecArg # None THEN {"getImageFormat"} ELSE {}) \cup
                    {"validateSelectedPixelFormatAndCodecCombination"}
            /\ outPath' = IF shouldOutputImageSequence /\ outPath = "absent"
                          THEN "dir" ELSE outPath
            /\ IF ~PixelFormatCodecOk(pf, codec)
               THEN /\ pc' = 100
                    /\ Throw("pixelFormatCodec")
               ELSE IF ImageFormatRejected(pf, imf)
               THEN /\ pc' = 101
                    /\ Throw("pixelFormatImageFormat")
               ELSE Goto(105)
    /\ UNCHANGED <<parallelism, shouldOutputImageSequence, userCodec, codec,
                   warnings, overwrite, crf, crfValidated>>
    /\ UNCHANGED <<outputBefore, tmpDir, bundleDir, callVars, compVars,
                   renderVars, endVars>>
ValidateFormats ==
    /\ At(95)
    /\ \E pf \in PixelFormats,
          userFmt \in {None} \cup {Some(f) : f \in ImageFormats} :
        LET codecArg == IF shouldOutputImageSequence THEN None ELSE codec
            imf == getImageFormat(codecArg, userFmt)
        IN  /\ pixelFormat' = pf
            /\ imageFormat' = imf
            /\ codecUsers' = codecUsers \cup
                    (IF codecArg # None THEN {"getImageFormat"} ELSE {}) \cup
                    {"validateSelectedPixelFormatAndCodecCombination"}
            /\ IF ~PixelFormatCodecOk(pf, codec)
               THEN /\ pc' = 100
                    /\ Throw("pixelFormatCodec")
               ELSE IF ImageFormatRejected(pf, imf)
               THEN /\ pc' = 101
                    /\ Throw("pixelFormatImageFormat")
               ELSE Goto(105)
    /\ UNCHANGED <<parallelism, shouldOutputImageSequence, userCodec, codec,
                   warnings, overwrite, crf, crfValidated>>
    /\ UNCHANGED <<fsVars, callVars, compVars, renderVars, endVars>>

(***************************************************************************)
(* Lines 105-109: an image sequence is written into the output directory,  *)
(* made here.  mkdirSync with recursive: true accepts an existing          *)
(* directory and throws EEXIST on an existing file.                        *)
(***************************************************************************)
MakeOutputDir ==
    /\ At(105)
    /\ IF ~shouldOutputImageSequence
       THEN /\ Goto(123)
            /\ outPath' = outPath
       ELSE IF outPath = "file"
       THEN /\ pc' = 106
            /\ Throw("mkdir")
            /\ outPath' = outPath
       ELSE /\ Goto(123)
            /\ outPath' = "dir"
    /\ UNCHANGED <<outputBefore, tmpDir, bundleDir>>
    /\ UNCHANGED <<cfgVars, callVars, compVars, renderVars, endVars>>

(***************************************************************************)
(* Lines 123-125: await bundle(...).                                       *)
(***************************************************************************)
BundleCall ==
    /\ At(123)
    /\ called' = called \cup {"bundle"}
    /\ running' = "bundle"
    /\ UNCHANGED <<completed, ctlVars, cfgVars, fsVars, compVars, renderVars,
                   endVars>>

\* bundle resolves with the directory it wrote
BundleResolve ==
    /\ result = "running" /\ running = "bundle"
    /\ running' = "none"
    /\ completed' = completed \cup {"bundle"}
    /\ bundleDir' = "dir"
    /\ Goto(126)
    /\ UNCHANGED <<called, outputBefore, outPath, tmpDir, cfgVars, compVars,
                   renderVars, endVars>>

BundleReject ==
    /\ result = "running" /\ running = "bundle"
    /\ running' = "none"
    /\ Throw("bundle")
    /\ UNCHANGED <<pc, called, completed, cfgVars, fsVars, compVars,
                   renderVars, endVars>>

(***************************************************************************)
(* Lines 126-139: await getCompositions(bundled), find the composition.    *)
(***************************************************************************)
GetCompositionsCall ==
    /\ At(126)
    /\ called' = called \cup {"getCompositions"}
    /\ running' = "getCompositions"
    /\ UNCHANGED <<completed, ctlVars, cfgVars, fsVars, compVars, renderVars,
                   endVars>>

\* getCompositions resolves with the list comps; lines 127-139 follow
\* without a further collaborator: pick the composition, and make the
\* temp directory that video frames go to (image-sequence frames go to the
\* output directory)
GetCompositionsResolve ==
    /\ result = "running" /\ running = "getCompositions"
    /\ running' = "none"
    /\ completed' = completed \cup {"getCompositions"}
    /\ \E comps \in SUBSET CompIds, id \in CompIds, n \in 1..MaxFrames :
        /\ compositionId' = id
        /\ IF id \notin comps
           THEN /\ pc' = 133
                /\ Throw("compositionNotFound")
                /\ frames' = frames
                /\ tmpDir' = tmpDir
           ELSE /\ Goto(149)
                /\ frames' = n
                /\ tmpDir' = IF shouldOutputImageSequence THEN tmpDir
                             ELSE "dir"
    /\ UNCHANGED <<called, outputBefore, outPath, bundleDir, cfgVars,
                   renderVars, endVars>>

GetCompositionsReject ==
    /\ result = "running" /\ running = "getCompositions"
    /\ running' = "none"
    /\ Throw("getCompositions")
    /\ UNCHANGED <<pc, called, completed, cfgVars, fsVars, compVars,
                   renderVars, endVars>>

\* the logical processors the host may have: up to twice the largest
\* concurrency
Cpus == 1..(2 * MaxCpus)

\* faulty variant of ConcurrencyShown: the text shows the parallelism as
\* configured, nothing when it is unset
ConcurrencyShownRaw(par, cpus) == IF par # None THEN Get(par) ELSE 0
\* lines 157-159: "Rendering frames (Nx concurrency)" with
\* N = getActualConcurrency(parallelism)
ConcurrencyShown(par, cpus) == getActualConcurrency(par, cpus)

(***************************************************************************)
(* Lines 149-167: await renderFrames(...).  renderFrames spreads the       *)
(* frame indices 0..frames-1 over getActualConcurrency(parallelism)        *)
(* workers; onStart runs before the first frame, onFrameUpdate after each  *)
(* frame with the index of the frame that was completed.                   *)
(***************************************************************************)
\* the call on a host of cpus logical processors
RenderFramesCallOn(cpus) ==
    /\ At(149)
    /\ called' = called \cup {"renderFrames"}
    /\ running' = "renderFrames"
    \* line 152: renderFrames resolves the parallelism it is given
    /\ concurrency' = getActualConcurrency(parallelism, cpus)
    /\ shownConcurrency' = ConcurrencyShown(parallelism, cpus)
    \* onStart, lines 155-162: renderProgress.start(frames, 0)
    /\ progress' = 0
    /\ UNCHANGED <<nextFrame, inflight, rendered, renderCount>>
    /\ UNCHANGED <<completed, ctlVars, cfgVars, fsVars, compVars, endVars>>

RenderFramesCall == \E cpus \in Cpus : RenderFramesCallOn(cpus)

\* faulty variant of DispatchFrame: a free worker takes any frame that is
\* not in flight, rendered or not
DispatchFrameAnew ==
    /\ running = "renderFrames" /\ result = "running"
    /\ nextFrame < frames
    /\ Cardinality(inflight) < concurrency
    /\ \E f \in (0..(frames - 1)) \ inflight : inflight' = inflight \cup {f}
    /\ nextFrame' = nextFrame + 1
    /\ UNCHANGED <<concurrency, shownConcurrency, rendered, renderCount,
                   progress>>
    /\ UNCHANGED <<ctlVars, cfgVars, fsVars, callVars, compVars, endVars>>
\* a free worker takes the next frame; none is handed out once a frame
\* has failed
DispatchFrame ==
    /\ running = "renderFrames" /\ result = "running"
    /\ nextFrame < frames
    /\ Cardinality(inflight) < concurrency
    /\ inflight' = inflight \cup {nextFrame}
    /\ nextFrame' = nextFrame + 1
    /\ UNCHANGED <<concurrency, shownConcurrency, rendered, renderCount,
                   progress>>
    /\ UNCHANGED <<ctlVars, cfgVars, fsVars, callVars, compVars, endVars>>

\* render.tsx line 151: onFrameUpdate: (frame) => renderProgress.update(frame)
OnFrameUpdate(shown, frame) == frame

\* a worker finishes its frame: the image is written, onFrameUpdate runs
FrameRendered ==
    /\ running = "renderFrames"
    /\ \E f \in inflight :
        /\ inflight' = inflight \ {f}
        /\ rendered' = rendered \cup {f}
        /\ renderCount' = [renderCount EXCEPT ![f] = @ + 1]
        /\ progress' = OnFrameUpdate(progress, f)
    /\ UNCHANGED <<concurrency, shownConcurrency, nextFrame>>
    /\ UNCHANGED <<ctlVars, cfgVars, fsVars, callVars, compVars, endVars>>

\* a frame fails to render: renderFrames rejects and render() throws at
\* line 149; workers still in flight finish their frame
FrameFailed ==
    /\ running = "renderFrames"
    /\ \E f \in inflight : inflight' = inflight \ {f}
    /\ IF result = "running"
       THEN Throw("renderFrames")
       ELSE UNCHANGED <<result, exitCode, error>>
    /\ UNCHANGED <<pc, concurrency, shownConcurrency, nextFrame, rendered, renderCount,
                   progress>>
    /\ UNCHANGED <<cfgVars, fsVars, callVars, compVars, endVars>>

(***************************************************************************)
(* renderFrames resolves once every frame is rendered.  Lines 168-185      *)
(* follow: stop the progress bar, log the performance counters under       *)
(* DEBUG, then either call stitchFramesToVideo (line 186) or, for an       *)
(* image sequence, report the result (lines 214-216).                      *)
(***************************************************************************)
\* faulty variant of ShouldStitch: stitching is never skipped
StitchAlways(seq) == TRUE
\* render.tsx line 172: whether the stitching branch is taken
ShouldStitch(seq) == ~seq

\* the promise renderFrames returned has resolved: every frame is rendered
RenderFramesSettled == nextFrame = frames /\ inflight = {}

\* faulty variant of Awaited: render() goes on without waiting
NotAwaited(settled) == TRUE
\* render.tsx line 149: render() waits for that promise (await)
Awaited(settled) == settled

\* faulty variant of DebugBlock: under DEBUG render() returns once the
\* counters are logged
DebugBlockReturns(dbg) == [logged |-> dbg, goesOn |-> ~dbg]
\* lines 169-171: if (process.env.DEBUG) Internals.perf.logPerf(): the
\* counters are logged under DEBUG, and render() goes on to line 172 either
\* way
DebugBlock(dbg) == [logged |-> dbg, goesOn |-> TRUE]

\* the step with process.env.DEBUG read as dbg
RenderFramesResolveWith(dbg) ==
    /\ running = "renderFrames" /\ result = "running"
    /\ Awaited(RenderFramesSettled)
    /\ completed' = completed \cup {"renderFrames"}
    /\ debug' = dbg
    /\ perfLogged' = DebugBlock(dbg).logged
    /\ IF ~DebugBlock(dbg).goesOn
       THEN /\ stitchEntered' = FALSE
            /\ running' = "none"
            /\ pc' = 171
            /\ result' = "done"
            /\ UNCHANGED <<exitCode, error, called, codecUsers>>
       ELSE IF ShouldStitch(shouldOutputImageSequence)
       THEN /\ stitchEntered' = TRUE
            /\ IF crf = None
               THEN /\ pc' = 175
                    /\ Throw("crfNotANumber")
                    /\ running' = "none"
                    /\ UNCHANGED <<called, codecUsers>>
               ELSE /\ Goto(186)
                    /\ running' = "stitchFramesToVideo"
                    /\ called' = called \cup {"stitchFramesToVideo"}
                    /\ codecUsers' = codecUsers \cup {"stitchFramesToVideo"}
       ELSE /\ stitchEntered' = FALSE
            /\ running' = "none"
            /\ pc' = 216
            /\ result' = "done"
            /\ UNCHANGED <<exitCode, error, called, codecUsers>>
    /\ UNCHANGED <<parallelism, shouldOutputImageSequence, userCodec, codec,
                   warnings, overwrite, crf, crfValidated, pixelFormat,
                   imageFormat>>
    /\ UNCHANGED <<videoWritten, disposeVars, fsVars, compVars, renderVars>>

RenderFramesResolve == \E dbg \in BOOLEAN : RenderFramesResolveWith(dbg)

(***************************************************************************)
(* Lines 186-200: await stitchFramesToVideo(...).  The encoder writes the  *)
(* video file at the output path; it cannot where a directory is.          *)
(***************************************************************************)
\* faulty variant of StitchResolve: stitchFramesToVideo is not awaited, and
\* render() goes on to line 203 while the encoder still runs
StitchNotAwaited ==
    /\ result = "running" /\ running = "stitchFramesToVideo"
    /\ running' = "none"
    /\ Goto(203)
    /\ UNCHANGED <<called, completed, fsVars, cfgVars, compVars, renderVars,
                   endVars>>
StitchResolve ==
    /\ result = "running" /\ running = "stitchFramesToVideo"
    /\ outPath # "dir"
    /\ running' = "none"
    /\ completed' = completed \cup {"stitchFramesToVideo"}
    /\ outPath' = "file"
    /\ videoWritten' = TRUE
    /\ Goto(203)
    /\ UNCHANGED <<called, outputBefore, tmpDir, bundleDir, stitchEntered,
                   debug, perfLogged, disposeVars, cfgVars, compVars,
                   renderVars>>

StitchReject ==
    /\ result = "running" /\ running = "stitchFramesToVideo"
    /\ running' = "none"
    /\ Throw("stitchFramesToVideo")
    /\ UNCHANGED <<pc, called, completed, cfgVars, fsVars, compVars,
                   renderVars, endVars>>

(***************************************************************************)
(* Lines 203-211: remove the frame directory and the bundle directory.     *)
(***************************************************************************)
\* fs.promises.rmdir(path, {recursive: true}), lines 205-210: removes the
\* directory and what is in it; in recursive mode a path that does not
\* exist is not an error
rmdirRecursive(kind) ==
    [kind |-> IF kind = "dir" THEN "removed" ELSE kind, ok |-> TRUE]

\* faulty variant of Dispose: the removals without recursive: true, where
\* a path that does not exist is an error
DisposeStrict ==
    LET t == [rmdirRecursive(tmpDir) EXCEPT !.ok = (tmpDir = "dir")]
        b == [rmdirRecursive(bundleDir) EXCEPT !.ok = (bundleDir = "dir")]
    IN  /\ tmpDir' = t.kind
        /\ bundleDir' = b.kind
        /\ disposals' = disposals + 1
        /\ disposeError' = (disposeError \/ ~(t.ok /\ b.ok))
\* lines 204-211: both removals, awaited together
Dispose ==
    LET t == rmdirRecursive(tmpDir)
        b == rmdirRecursive(bundleDir)
    IN  /\ tmpDir' = t.kind
        /\ bundleDir' = b.kind
        /\ disposals' = disposals + 1
        /\ disposeError' = (disposeError \/ ~(t.ok /\ b.ok))

Cleanup ==
    /\ At(203)
    /\ Dispose
    /\ IF disposeError'
       THEN /\ pc' = 204
            /\ Throw("rmdir")
       ELSE Goto(212)
    /\ UNCHANGED <<outputBefore, outPath, stitchEntered, videoWritten, debug,
                   perfLogged, cfgVars, callVars, compVars, renderVars>>

(***************************************************************************)
(* Lines 212-216: report the video.                                        *)
(***************************************************************************)
ReportVideo ==
    /\ At(212)
    /\ pc' = 216
    /\ result' = "done"
    /\ UNCHANGED <<exitCode, error, cfgVars, fsVars, callVars, compVars,
                   renderVars, endVars>>

Next ==
    \/ ReadFlags
    \/ ResolveCodec
    \/ CheckOutput
    \/ ValidateFfmpeg
    \/ ValidateCrf
    \/ ValidateFormats
    \/ MakeOutputDir
    \/ BundleCall
    \/ BundleResolve
    \/ BundleReject
    \/ GetCompositionsCall
    \/ GetCompositionsResolve
    \/ GetCompositionsReject
    \/ RenderFramesCall
    \/ DispatchFrame
    \/ FrameRendered
    \/ FrameFailed
    \/ RenderFramesResolve
    \/ StitchResolve
    \/ StitchReject
    \/ Cleanup
    \/ ReportVideo

Spec == Init /\ [][Next]_vars

(***************************************************************************)
(* Properties of render().                                                 *)
(***************************************************************************)
NoDirectoryCreated ==
    outPath = outputBefore /\ tmpDir = "absent" /\ bundleDir = "absent"

\* the flags of lines 33-35 have been read
FlagsRead == pc # 33

\* C1: a run with --sequence and an explicit codec ends at the conflict
\* check with exit code 1, before any collaborator is called and before
\* any directory is created.
C1_ConflictRejected ==
    (FlagsRead /\ shouldOutputImageSequence /\ userCodec # None) =>
        /\ result = "exit" /\ exitCode = Some(1) /\ pc = 44
        /\ called = {}
        /\ NoDirectoryCreated

C1_Witness ==
    /\ result = "exit" /\ error = "conflict"
    /\ shouldOutputImageSequence /\ userCodec # None

\* C2: every successful run, video or image sequence, has removed its
\* bundle directory and its temp frame directory when it reports Done.
C2_CleanupBeforeDone ==
    result = "done" => bundleDir # "dir" /\ tmpDir # "dir"

\* C3: every run that fails after it created the bundle directory or the
\* temp frame directory has removed them when it ends as Failed.
C3_CleanupOnFailure ==
    result = "threw" => bundleDir # "dir" /\ tmpDir # "dir"

ConfigErrors == {"conflict", "crf", "pixelFormatCodec",
                 "pixelFormatImageFormat"}

\* C4 as stated: a configuration error ends the run before any collaborator,
\* ffmpegHasFeature and validateFfmpeg included, is called.
C4_NoCollaboratorBeforeConfigError ==
    error \in ConfigErrors => called = {}

\* C4 as amended: a configuration error ends the run before bundle,
\* getCompositions, renderFrames or stitchFramesToVideo is called (the
\* encoder probes ffmpegHasFeature and validateFfmpeg may have been called
\* by then), and no run with such an error in its configuration reaches
\* bundle.
C4_ConfigErrorsBeforeStages ==
    /\ error \in ConfigErrors => called \cap StageCollaborators = {}
    /\ called \cap StageCollaborators # {} =>
        /\ ~(shouldOutputImageSequence /\ userCodec # None)
        /\ crf # None => CrfOk(crf, codec)
        /\ PixelFormatCodecOk(pixelFormat, codec)
        /\ PixelFormatImageFormatOk(pixelFormat, imageFormat)

C4_Witness ==
    /\ error = "crf" /\ result = "threw"
    /\ "validateFfmpeg" \in called

\* C5: when something is at the output path and overwrite is off, the run
\* ends with exit code 1 before bundle, getCompositions, renderFrames or
\* stitchFramesToVideo is called, creates no directory and leaves the
\* output as it was; exit code 1 comes only from this and from the
\* codec/sequence conflict.
C5_ExistingOutputRejected ==
    /\ (pc > 76 /\ outputBefore # "absent" /\ ~overwrite) =>
        /\ result = "exit" /\ exitCode = Some(1) /\ pc = 86
        /\ called \cap StageCollaborators = {}
        /\ NoDirectoryCreated
    /\ exitCode # None =>
        /\ exitCode = Some(1)
        /\ \/ pc = 44 /\ shouldOutputImageSequence /\ userCodec # None
           \/ pc = 86 /\ outputBefore # "absent" /\ ~overwrite

C5_Witness ==
    /\ result = "exit" /\ error = "exists" /\ exitCode = Some(1)
    /\ outPath = "file" /\ ~overwrite

\* C6: during frame rendering the value shown by renderProgress never
\* decreases and never exceeds durationInFrames.
C6_ProgressMonotone ==
    [][(running = "renderFrames" /\ running' = "renderFrames") =>
            (progress' >= progress /\ progress' <= frames')]_vars

\* C7: bundle has completed when getCompositions starts, getCompositions
\* has completed when renderFrames starts or any frame is handed out, and
\* every frame is rendered and no worker is in flight when
\* stitchFramesToVideo starts or runs.
C7_StageBarriers ==
    /\ "getCompositions" \in called => "bundle" \in completed
    /\ "renderFrames" \in called => "getCompositions" \in completed
    /\ (nextFrame > 0 \/ inflight # {} \/ rendered # {}) =>
            ("getCompositions" \in completed /\ frames > 0)
    /\ "stitchFramesToVideo" \in called =>
        /\ "renderFrames" \in completed
        /\ rendered = 0..(frames - 1)
        /\ inflight = {}
    /\ running = "stitchFramesToVideo" => inflight = {}

C7_Witness ==
    /\ running = "stitchFramesToVideo"
    /\ frames = MaxFrames /\ concurrency > 1
    /\ rendered = 0..(frames - 1)

\* C8: the stitching branch is entered only for video output, and it is
\* entered exactly for video output once frame rendering has completed; a
\* successful video run leaves a video file at the output path, its
\* frames having gone to a temp directory, a successful image-sequence
\* run leaves a directory at the output path, no temp directory used, and
\* no run does both or neither.
C8_StitchIffVideo ==
    /\ stitchEntered => ~shouldOutputImageSequence
    /\ "stitchFramesToVideo" \in called =>
            (stitchEntered /\ ~shouldOutputImageSequence)
    /\ "renderFrames" \in completed =>
            (stitchEntered <=> ~shouldOutputImageSequence)
    /\ result = "done" =>
        /\ videoWritten <=> ~shouldOutputImageSequence
        /\ ~shouldOutputImageSequence =>
                (outPath = "file" /\ tmpDir # "absent")
        /\ shouldOutputImageSequence =>
                (outPath = "dir" /\ tmpDir = "absent")

C8_Witness ==
    /\ result = "done" /\ shouldOutputImageSequence
    /\ ~stitchEntered /\ "stitchFramesToVideo" \notin called
    /\ outPath = "dir" /\ rendered = 0..(frames - 1)

\* C9: once line 91 has run, crf is a number exactly when the output is a
\* video, and the CRF validator has run exactly then; when the stitching
\* branch is entered crf is a number, so the TypeError of line 175 is
\* never thrown.
C9_CrfIffVideo ==
    /\ pc > 91 =>
        /\ crf # None <=> ~shouldOutputImageSequence
        /\ crfValidated <=> ~shouldOutputImageSequence
    /\ stitchEntered => crf # None
    /\ error # "crfNotANumber"

C9_Witness ==
    /\ running = "stitchFramesToVideo" /\ stitchEntered
    /\ crf # None /\ crfValidated

\* C10: a run with image-sequence output that passed the conflict check
\* has no codec: none is resolved and none is handed to a later step.
C10_NoCodecInSequence ==
    (FlagsRead /\ shouldOutputImageSequence /\ userCodec = None) =>
        (codec = None /\ codecUsers = {})


\* C11: a missing encoder feature is advisory.  Wherever the feature checks
\* are about to run, the step taken on a host that lacks features and the
\* step taken on a host that has them all continue at line 76 with the
\* same codec and the same collaborators called, nothing else changed; no
\* run ends inside lines 46-75, and nothing after them reads the outcome
\* of the checks (render() keeps it in no variable).
C11_FeatureCheckAdvisory ==
    /\ result # "running" => pc \notin 46..75
    /\ At(46) =>
        \A extCodec \in {None} \cup {Some(c) : c \in Codecs},
           has \in SUBSET Features :
            /\ ENABLED (ResolveCodecWith(extCodec, has)
                            /\ pc' = 76 /\ result' = "running")
            /\ \A c \in Codecs, k \in SUBSET {"ffmpegHasFeature"} :
                (ENABLED (ResolveCodecWith(extCodec, has)
                            /\ codec' = Some(c) /\ called' = called \cup k))
                <=>
                (ENABLED (ResolveCodecWith(extCodec, Features)
                            /\ codec' = Some(c) /\ called' = called \cup k))

C11_Witness ==
    /\ result = "done" /\ videoWritten
    /\ codec = Some("h265")
    /\ warnings = {"enable-gpl", "enable-libx265"}

\* C12: a transparent pixel format (yuva420p) with an image format that
\* has no alpha channel (jpeg) ends the run at the format validators of
\* lines 100-104; where the codec allows yuva420p, it ends at the
\* pixel-format/image-format validator.  Bundle, getCompositions and
\* renderFrames are never called, and neither the output directory of an
\* image sequence nor a temp frame directory is made.
C12_AlphaNeedsAlphaImageFormat ==
    (pc > 95 /\ pixelFormat = "yuva420p" /\ imageFormat = "jpeg") =>
        /\ result = "threw"
        /\ pc \in {100, 101}
        /\ error \in {"pixelFormatCodec", "pixelFormatImageFormat"}
        /\ PixelFormatCodecOk(pixelFormat, codec) =>
                (pc = 101 /\ error = "pixelFormatImageFormat")
        /\ called \cap {"bundle", "getCompositions", "renderFrames"} = {}
        /\ outPath = outputBefore /\ tmpDir = "absent"

C12_Witness ==
    /\ result = "threw" /\ error = "pixelFormatImageFormat"
    /\ codec = Some("vp9") /\ ~shouldOutputImageSequence
    /\ pixelFormat = "yuva420p" /\ imageFormat = "jpeg"

(***************************************************************************)
(* The CRF validation on its own: a video run at line 91, its codec        *)
(* resolved and ffmpeg validated, with every CRF from below the lowest     *)
(* documented range to above the highest configured in turn.  The run is   *)
(* followed as far as the call of bundle.                                  *)
(***************************************************************************)
CrfDomain == (0 - CrfMargin)..(63 + CrfMargin)

InitCrf ==
    /\ pc = 91
    /\ result = "running"
    /\ exitCode = None
    /\ error = "none"
    /\ outputBefore = "absent"
    /\ outPath = outputBefore
    /\ tmpDir = "absent"
    /\ bundleDir = "absent"
    /\ parallelism = None
    /\ shouldOutputImageSequence = FALSE
    /\ userCodec \in {Some(c) : c \in Codecs}
    /\ codec = getFinalOutputCodec(userCodec, None)
    /\ codecUsers = {"getOutputFilename"}
    /\ warnings = {}
    /\ overwrite \in BOOLEAN
    /\ crf = None
    /\ crfValidated = FALSE
    /\ pixelFormat = "yuv420p"
    /\ imageFormat = "jpeg"
    /\ called = {"validateFfmpeg"} \cup
                (IF FeaturesAsked(codec) # {} THEN {"ffmpegHasFeature"}
                 ELSE {})
    /\ completed = called
    /\ running = "none"
    /\ compositionId = "a"
    /\ frames = 0
    /\ concurrency = 0
    /\ shownConcurrency = 0
    /\ nextFrame = 0
    /\ inflight = {}
    /\ rendered = {}
    /\ renderCount = [f \in 0..MaxFrames |-> 0]
    /\ progress = 0
    /\ stitchEntered = FALSE
    /\ videoWritten = FALSE
    /\ debug = FALSE
    /\ perfLogged = FALSE
    /\ disposals = 0
    /\ disposeError = FALSE

ValidateCrfInDomain == \E n \in CrfDomain : ValidateCrfWith(Some(n))

NextCrf ==
    \/ ValidateCrfInDomain
    \/ ValidateFormats
    \/ MakeOutputDir
    \/ BundleCall

SpecCrf == InitCrf /\ [][NextCrf]_vars

\* the states InitCrf starts from are states of render()
InitCrfReached ==
    /\ pc = 91 /\ ~shouldOutputImageSequence /\ outputBefore = "absent"
    /\ parallelism = None /\ userCodec = Some("vp8") /\ codec = userCodec
    /\ warnings = {} /\ overwrite
    /\ called = {"validateFfmpeg", "ffmpegHasFeature"} /\ completed = called

\* C13: the CRF validator accepts exactly the documented range of the
\* codec (h264 0-51, h265 0-51, vp8 4-63, vp9 0-63); a rejected CRF ends
\* the run at line 93, before bundle is called and with no directory made,
\* and no run with a CRF outside the range calls bundle.
C13_CrfRangeByCodec ==
    (pc > 91 /\ crf # None /\ codec # None) =>
        LET n == Get(crf)
            c == Get(codec)
            rejected == error = "crf"
        IN  /\ (c = "h264") => (rejected <=> ~(0 <= n /\ n <= 51))
            /\ (c = "h265") => (rejected <=> ~(0 <= n /\ n <= 51))
            /\ (c = "vp8") => (rejected <=> ~(4 <= n /\ n <= 63))
            /\ (c = "vp9") => (rejected <=> ~(0 <= n /\ n <= 63))
            /\ rejected =>
                /\ result = "threw" /\ pc = 93
                /\ "bundle" \notin called
                /\ NoDirectoryCreated
            /\ ~rejected => pc >= 95

C13_Witness ==
    /\ error = "crf" /\ result = "threw"
    /\ codec = Some("h264") /\ crf = Some(52)

(***************************************************************************)
(* Disposal on its own: once a run has ended, however it ended, and no     *)
(* frame worker is left, the disposal of lines 204-211 is invoked on the   *)
(* run's two directories, up to MaxDisposals times in all.                 *)
(***************************************************************************)
DisposeAgain ==
    /\ result # "running" /\ inflight = {}
    /\ disposals < MaxDisposals
    /\ Dispose
    /\ UNCHANGED <<outputBefore, outPath, stitchEntered, videoWritten, debug,
                   perfLogged, ctlVars, cfgVars, callVars, compVars,
                   renderVars>>

NextDispose == Next \/ DisposeAgain

SpecDispose == Init /\ [][NextDispose]_vars

C15_EffectiveConcurrency ==
    /\ "renderFrames" \in called =>
        /\ concurrency \in Nat /\ concurrency >= 1
        /\ parallelism # None => concurrency = Get(parallelism)
        /\ shownConcurrency = concurrency
        /\ Cardinality(inflight) <= concurrency
    /\ (At(149) /\ parallelism = None) =>
        \A cpus \in Cpus :
            /\ ENABLED RenderFramesCallOn(cpus)
            /\ \A n \in 0..(2 * MaxCpus) :
                (ENABLED (RenderFramesCallOn(cpus) /\ concurrency' = n))
                => /\ n >= 1
                   /\ cpus = 1 => n = 1
                   /\ cpus > 1 => (2 * n <= cpus + 1 /\ cpus <= 2 * n + 1)

C15_Witness ==
    /\ result = "done"
    /\ parallelism = None
    /\ concurrency = 2 /\ shownConcurrency = 2
    /\ frames = MaxFrames

\* C16: in the frame-rendering stage every frame index handed to a worker
\* is below durationInFrames and is handed out once: no index is both in
\* flight and rendered, no index is rendered twice, and at most the
\* effective concurrency's worth of frames is in flight.  When renderFrames
\* has completed, each index of 0..durationInFrames-1 was rendered exactly
\* once.
C16_EachFrameOnce ==
    "renderFrames" \in called =>
        /\ inflight \cup rendered \subseteq 0..(nextFrame - 1)
        /\ nextFrame <= frames
        /\ inflight \cap rendered = {}
        /\ Cardinality(inflight) <= concurrency
        /\ \A f \in 0..MaxFrames :
            renderCount[f] = (IF f \in rendered THEN 1 ELSE 0)
        /\ "renderFrames" \in completed =>
            /\ rendered = 0..(frames - 1)
            /\ inflight = {}

C16_Witness ==
    /\ running = "renderFrames" /\ result = "running"
    /\ frames = MaxFrames /\ concurrency = 2
    /\ Cardinality(inflight) = 2
    /\ rendered = {1}

Failed == {"threw", "exit"}

\* once a run has failed it starts no stage, hands out no frame and stays
\* failed; workers in flight may still finish
HaltsAfterFailure ==
    result \in Failed =>
        /\ called' = called
        /\ nextFrame' = nextFrame
        /\ inflight' \subseteq inflight
        /\ result' = result

\* C17: after a fatal error no later stage is started and no frame is handed
\* out, the run never ends in Done, and once its workers have finished it
\* has cleaned up: neither directory it created is left.
C17_FailureHaltsAndCleansUp ==
    [][/\ HaltsAfterFailure
       /\ (result' \in Failed /\ inflight' = {}) =>
            (bundleDir' # "dir" /\ tmpDir' # "dir")]_vars

\* C18: the removal of the temp frame directory and the bundle directory
\* starts only when stitchFramesToVideo has completed and every frame worker
\* has finished; after it no collaborator is called or running, no frame is
\* rendered, and the directories are not made again.
C18_NoUseAfterCleanup ==
    [][/\ disposals' >= 1 =>
            /\ "stitchFramesToVideo" \in completed
            /\ "renderFrames" \in completed
            /\ inflight = {} /\ running = "none"
       /\ disposals >= 1 =>
            /\ called' = called /\ running' = "none"
            /\ inflight' = {} /\ rendered' = rendered
            /\ tmpDir' = tmpDir /\ bundleDir' = bundleDir]_vars

C18_Witness ==
    /\ disposals = 1 /\ result = "done"
    /\ "stitchFramesToVideo" \in completed
    /\ outputBefore = "file" /\ overwrite
    /\ tmpDir = "removed" /\ bundleDir = "removed"

\* the step after renderFrames with DEBUG read as dbg and with it read as
\* the opposite agree on obs, a predicate on the state they lead to (the
\* step has one outcome for each value of DEBUG)
DebugBlind(obs(_)) ==
    (ENABLED (RenderFramesResolveWith(TRUE) /\ obs(TRUE)))
    <=> (ENABLED (RenderFramesResolveWith(FALSE) /\ obs(FALSE)))

\* C19: DEBUG does not change the pipeline.  Where render() reads it (line
\* 169), the run with DEBUG set and the run without it, alike in everything
\* else, take the same step: same next line, same outcome, same collaborator
\* called and running, same stages entered, same directories.  The value
\* goes nowhere but to the performance counters, which are logged exactly
\* when DEBUG is set and only once renderFrames has completed.
C19_DebugOnlyLogs ==
    /\ ~("renderFrames" \in completed) => (~perfLogged /\ ~debug)
    /\ perfLogged = debug
    /\ (running = "renderFrames" /\ result = "running"
            /\ Awaited(RenderFramesSettled)) =>
        /\ \A p \in {171, 175, 186, 216} :
            LET obs(dbg) == pc' = p /\ perfLogged' = dbg IN DebugBlind(obs)
        /\ \A r \in {"running", "threw", "done"}, e \in {error, "crfNotANumber"} :
            LET obs(dbg) == result' = r /\ error' = e IN DebugBlind(obs)
        /\ \A ru \in {"none", "stitchFramesToVideo"}, st \in BOOLEAN :
            LET obs(dbg) == running' = ru /\ stitchEntered' = st
            IN  DebugBlind(obs)
        /\ \A k \in SUBSET {"stitchFramesToVideo"} :
            LET obs(dbg) == /\ called' = called \cup k
                            /\ completed' = completed \cup {"renderFrames"}
                            /\ <<outPath, tmpDir, bundleDir>>'
                                    = <<outPath, tmpDir, bundleDir>>
            IN  DebugBlind(obs)

C19_Witness ==
    /\ result = "done" /\ videoWritten
    /\ debug /\ perfLogged
    /\ tmpDir = "removed" /\ bundleDir = "removed"

\* the conflict check, the existing-output check and both pixel-format
\* validators have passed
ValidationPassed ==
    /\ ~(shouldOutputImageSequence /\ userCodec # None)
    /\ outputBefore = "absent" \/ overwrite
    /\ pixelFormat = "yuva420p" =>
        (codec \in {Some("vp8"), Some("vp9")} /\ imageFormat = "png")
    /\ pc >= 105
    /\ error \notin ConfigErrors \cup {"exists"}

\* C20: a directory is made only after validation.  The output directory is
\* made by the run only in image-sequence mode, where nothing was at the
\* path, and only once the checks have passed; the temp frame directory
\* only in video mode, once the checks have passed and the composition was
\* found; a run that ends at a configuration error or at the
\* existing-output check has made no directory.
C20_DirectoriesAfterValidation ==
    /\ (outPath = "dir" /\ outputBefore # "dir") =>
        /\ shouldOutputImageSequence
        /\ outputBefore = "absent"
        /\ ValidationPassed
    /\ tmpDir # "absent" =>
        /\ ~shouldOutputImageSequence
        /\ ValidationPassed
        /\ "getCompositions" \in completed
        /\ frames > 0 /\ error # "compositionNotFound"
    /\ error = "compositionNotFound" => tmpDir = "absent"
    /\ error \in ConfigErrors \cup {"exists"} => NoDirectoryCreated

C20_Witness ==
    /\ shouldOutputImageSequence /\ result = "done"
    /\ outputBefore = "absent" /\ outPath = "dir"
    /\ tmpDir = "absent"

=============================================================================
